---- MODULE Spec2Model ----
(***************************************************************************)
(* Model of src/main.py: the two-pass clause extraction pipeline.          *)
(*                                                                         *)
(* process_document truncates the output file, splits the document text   *)
(* into chunks, calls process_chunk on every chunk (pass 1), counts the    *)
(* records without an "error" key and, when there are more than 50, clears *)
(* the file and calls process_chunk on every chunk again with              *)
(* is_final_pass=True (pass 2), then sorts and merges.                     *)
(*                                                                         *)
(* Strings that are compared for order (clause_number) and sliced          *)
(* (clause_text) are sequences of character codes; strings that are only   *)
(* compared for equality are TLA+ strings.  A line of the output file is   *)
(* the JSON text of one value; the model keeps it as [json |-> value].     *)
(***************************************************************************)
EXTENDS Integers, Sequences, FiniteSets, TLC

\* ---------------------------------------------------------------- bounds
\* Most chunks a document of the general specification has.
MaxChunks == 2

\* Number of chunks of the 60-chunk scenario.
ScenarioChunks == 60

\* Length of the long chunk (one more than chunk[:1000] keeps).
LongLen == 1001

\* ------------------------------------------------------ program constants
\* stop_after_attempt(3)
MaxAttempts == 3
\* if total_clauses > 50
Threshold == 50
\* sorted(...)[:50]
TopN == 50
\* chunk[:1000]
FallbackLen == 1000

\* ---------------------------------------------------------------- strings
RECURSIVE Decimal(_)
\* str(n) for n >= 0, as character codes ("0" is 48).
Decimal(n) == IF n < 10 THEN <<48 + n>> ELSE Decimal(n \div 10) \o <<48 + (n % 10)>>

RECURSIVE NumLess(_, _)
\* StrLess with a fault: the order of decimal numerals by value (shorter is
\* smaller, then by digits) instead of the str order.
NumLess(a, b) ==
    IF Len(a) # Len(b) THEN Len(a) < Len(b)
    ELSE IF a = <<>> THEN FALSE
    ELSE IF Head(a) # Head(b) THEN Head(a) < Head(b)
    ELSE NumLess(Tail(a), Tail(b))

RECURSIVE StrLess(_, _)
\* Python's < on str: lexicographic by code point; a proper prefix is smaller.
StrLess(a, b) ==
    IF a = <<>> THEN b # <<>>
    ELSE IF b = <<>> THEN FALSE
    ELSE IF Head(a) # Head(b) THEN Head(a) < Head(b)
    ELSE StrLess(Tail(a), Tail(b))

\* "unknown"
Unknown == <<117, 110, 107, 110, 111, 119, 110>>

\* s[:n]
Take(s, n) == SubSeq(s, 1, IF Len(s) < n THEN Len(s) ELSE n)

\* ------------------------------------------------------------ JSON values
\* A decoded JSON value that is an object: keys is the set of its keys, the
\* fields of absent keys hold an empty value.  kind "int" is a JSON number
\* (an item that is not an object).
Obj(keys, err, num, text, risk, neg) ==
    [kind |-> "obj", keys |-> keys, error |-> err, clause_number |-> num,
     clause_text |-> text, clause_risk |-> risk, negotiation |-> neg]

ClauseKeys == {"clause_number", "clause_text", "clause_risk", "negotiation"}

Clause(num, text, risk, neg) == Obj(ClauseKeys, "", num, text, risk, neg)

ErrorRecord(msg) == Obj({"error"}, msg, <<>>, <<>>, "", "")

IntItem == [kind |-> "int", keys |-> {}, error |-> "", clause_number |-> <<>>,
            clause_text |-> <<>>, clause_risk |-> "", negotiation |-> ""]

\* "error" in c ; raises TypeError when c is a number.
HasError(c) == "error" \in c.keys

\* c.get("clause_risk") == "very high" ; raises AttributeError when c is a number.
IsVeryHigh(c) == "clause_risk" \in c.keys /\ c.clause_risk = "very high"

IsObj(c) == c.kind = "obj"

\* json.dumps(value) + "\n": one line of the output file.
JsonLine(c) == [json |-> c]

\* ------------------------------------------------------------ the document
\* Text of the i-th chunk.
ChunkText(i) == <<67>> \o Decimal(i)

\* chunk_text(text, chunk_size) for a text of n chunks.
ChunksOf(n) == [i \in 1..n |-> ChunkText(i)]

\* A chunk longer than 1000 characters (chunk_size is a parameter of
\* process_document and counts the chunker's units): "BCD...ZAB...".
LongChunk == [i \in 1..LongLen |-> 65 + (i % 26)]

\* chunk_text(text, chunk_size) for a text of n chunks whose first is long.
LongChunksOf(n) == [i \in 1..n |-> IF i = 1 THEN LongChunk ELSE ChunkText(i)]

\* ------------------------------------------------------- the model's replies
\* One outcome of model.generate_content_async and of reading its stream:
\* kind "fail" raises exc; otherwise decoded is what json.loads makes of the
\* cleaned text: "undecodable" (JSONDecodeError), a "list" of items, or a
\* "scalar" (a JSON value that is not a list; truthy tells bool(value)).
Outcome(kind, exc, items, truthy) ==
    [kind |-> kind, exc |-> exc, items |-> items, truthy |-> truthy]

Fails(exc) == Outcome("fail", exc, <<>>, FALSE)

Undecodable == Outcome("undecodable", "", <<>>, FALSE)

ListOf(items) == Outcome("list", "", items, items # <<>>)

Scalar(truthy) == Outcome("scalar", "", <<>>, truthy)

\* The two classes of retry_if_exception_type.
Retryable == {"ResourceExhausted", "ServiceUnavailable"}

\* Exception classes the model call raises in the model: the two retried ones
\* and one other.
FailureClasses == Retryable \cup {"InvalidArgument"}

RiskOf(i) == IF i % 4 = 0 THEN "very high"
             ELSE IF i % 4 = 1 THEN "low"
             ELSE IF i % 4 = 2 THEN "medium" ELSE "high"

\* Replies the model draws from: an empty list, a short list with an object
\* carrying only an "error" key and a very-high-risk object that also carries
\* an "error" key, 25 clauses of mixed risk numbered "1".."25", 26 very-high
\* clauses numbered "40" down to "15" with a negotiation text, and a list
\* holding a number.
ShortList == << Obj({"error"}, "unreadable", <<>>, <<>>, "", ""),
                Clause(Decimal(7), <<84>>, "very high", "NIL"),
                Clause(Decimal(3), <<84>>, "low", "NIL"),
                Obj({"error", "clause_number", "clause_risk"}, "partial",
                    Decimal(5), <<>>, "very high", "") >>

List25 == [i \in 1..25 |-> Clause(Decimal(i), <<84>>, RiskOf(i), "NIL")]

List26 == [i \in 1..26 |-> Clause(Decimal(41 - i), <<84>>, "very high", "Limit liability")]

\* 51 clauses of mixed risk numbered "1".."51": one reply above the threshold.
List51 == [i \in 1..51 |-> Clause(Decimal(i), <<84>>, RiskOf(i),
                                  IF RiskOf(i) = "very high" THEN "Cap the penalty" ELSE "NIL")]

\* A shorter menu of replies, in which one reply alone exceeds the threshold.
RefineOutcomes ==
    {Fails("ServiceUnavailable"), Undecodable, ListOf(<<>>), ListOf(ShortList), ListOf(List51)}

ModelOutcomes ==
    {Fails(e) : e \in FailureClasses}
    \cup {Undecodable, Scalar(TRUE), Scalar(FALSE)}
    \cup {ListOf(<<>>), ListOf(ShortList), ListOf(List25), ListOf(List26),
          ListOf(<<IntItem>>)}

\* ------------------------------------------------------------ process_chunk
\* What process_chunk's body hands back: raised says an exception left the
\* body (exc its class); otherwise value is the returned value, kind "list"
\* (items) or "scalar".  writes are the lines it appended to the file.
BodyResult(raised, exc, kind, items, writes) ==
    [raised |-> raised, exc |-> exc, kind |-> kind, items |-> items, writes |-> writes]

Returns(kind, items, writes) == BodyResult(FALSE, "", kind, items, writes)

NoClausesRecord == ErrorRecord("No clauses found in chunk")

ProcessingError(exc) == ErrorRecord("Processing error: " \o exc)

\* FallbackClause with a fault: the chunk is not truncated.
FallbackClauseWhole(chunk) == Clause(Unknown, chunk, "medium", "NIL")

FallbackClause(chunk) == Clause(Unknown, Take(chunk, FallbackLen), "medium", "NIL")

Lines(items) == [i \in 1..Len(items) |-> JsonLine(items[i])]

\* OnException with a fault: the handler returns the error record in the list
\* instead of an empty list.
OnExceptionReturnsRecord(exc, is_final_pass) ==
    Returns("list", <<ProcessingError(exc)>>,
            IF is_final_pass THEN <<JsonLine(ProcessingError(exc))>> ELSE <<>>)

\* except Exception as e: (lines 79-83)
OnException(exc, is_final_pass) ==
    Returns("list", <<>>, IF is_final_pass THEN <<JsonLine(ProcessingError(exc))>> ELSE <<>>)

\* OnDecodeError with a fault: the fallback clause is written in both passes.
OnDecodeErrorAlwaysWrites(chunk, is_final_pass) ==
    Returns("list", <<FallbackClause(chunk)>>, <<JsonLine(FallbackClause(chunk))>>)

\* except json.JSONDecodeError: (lines 67-78)
OnDecodeError(chunk, is_final_pass) ==
    Returns("list", <<FallbackClause(chunk)>>,
            IF is_final_pass THEN <<JsonLine(FallbackClause(chunk))>> ELSE <<>>)

\* OnDecoded with a fault: "No clauses found in chunk" is written in the final
\* pass only, like the other lines.
OnDecodedQuietInPass1(o, is_final_pass) ==
    IF ~is_final_pass THEN Returns(o.kind, o.items, <<>>)
    ELSE IF ~o.truthy THEN Returns(o.kind, o.items, <<JsonLine(NoClausesRecord)>>)
    ELSE IF o.kind = "list" THEN Returns("list", o.items, Lines(o.items))
    ELSE OnException("TypeError", is_final_pass)

\* clauses = json.loads(...) succeeded (lines 57-66).  Iterating a truthy
\* value that is not a list raises TypeError inside the outer try.
OnDecoded(o, is_final_pass) ==
    IF ~o.truthy
    THEN Returns(o.kind, o.items, <<JsonLine(NoClausesRecord)>>)
    ELSE IF ~is_final_pass THEN Returns(o.kind, o.items, <<>>)
    ELSE IF o.kind = "list" THEN Returns("list", o.items, Lines(o.items))
    ELSE OnException("TypeError", is_final_pass)

\* Lines 27-44: the prompt variant, "negotiation" (a suggestion is asked for
\* very high risk) or "nil" ('NIL' for all risks).
PromptVariant(is_final_pass, total) ==
    IF is_final_pass /\ total > Threshold THEN "negotiation" ELSE "nil"

\* The body of process_chunk (lines 45-83) on one outcome of the model call.
ProcessChunkBody(chunk, o, is_final_pass) ==
    IF o.kind = "fail" THEN OnException(o.exc, is_final_pass)
    ELSE IF o.kind = "undecodable" THEN OnDecodeError(chunk, is_final_pass)
    ELSE OnDecoded(o, is_final_pass)

\* The @retry decorator (lines 21-25): the body is run again when it raised
\* one of the two classes and fewer than 3 attempts were made.
RetryAgain(r, attempt) ==
    r.raised /\ r.exc \in Retryable /\ attempt < MaxAttempts

\* --------------------------------------------------------- process_document
\* The sort key of x comes before that of y, or they are equal and x stands
\* earlier in the list (sorted is stable).
SortsBefore(s, j, i) ==
    \/ StrLess(s[j].clause_number, s[i].clause_number)
    \/ (j < i /\ ~StrLess(s[i].clause_number, s[j].clause_number))

\* Position of s[i] in the sorted list.
RankIn(s, i) == 1 + Cardinality({j \in 1..Len(s) : SortsBefore(s, j, i)})

\* sorted(s, key=lambda x: x["clause_number"]): stable, by str order.
SortByNumber(s) ==
    LET Place(rank) == [r \in 1..Len(s) |-> s[CHOOSE i \in 1..Len(s) : rank[i] = r]]
    IN  CHOOSE out \in {Place(rk) : rk \in {[i \in 1..Len(s) |-> RankIn(s, i)]}} : TRUE

\* SelectTop with a fault: the first 50 candidates, unsorted.
SelectTopUnsorted(cands) == Take(cands, TopN)

\* sorted(very_high_clauses, key=...)[:50]  (line 111)
SelectTop(cands) == Take(SortByNumber(cands), TopN)

IsNonError(c) == ~HasError(c)

Member(c, s) == \E j \in 1..Len(s) : s[j] = c

\* len([c for c in all_clauses if "error" not in c])  (line 102)
CountNonError(all) == Len(SelectSeq(all, IsNonError))

\* total_clauses > 50  (line 103)
NeedsRefinement(total) == total > Threshold

\* [c for c in clauses if c.get("clause_risk") == "very high"]  (line 109)
VeryHighOf(items) == SelectSeq(items, IsVeryHigh)

\* OtherClauses with a fault: no very-high clause of pass 1 is kept.
OtherClausesDropsVeryHigh(all, selected) ==
    LET Keep(c) == ~IsVeryHigh(c)
    IN  SelectSeq(all, Keep)

\* [c for c in all_clauses if c.get("clause_risk") != "very high"
\*                            or c in very_high_clauses]  (line 112)
OtherClauses(all, selected) ==
    LET Keep(c) == ~IsVeryHigh(c) \/ Member(c, selected)
    IN  SelectSeq(all, Keep)

\* WriteClauses with a fault: the final append without the "error" filter.
WriteClausesUnfiltered(file, clauses) == file \o Lines(clauses)

\* for clause in ...: if "error" not in clause: f.write(...)  (lines 114-117,
\* 119-122): the file after the final append.
WriteClauses(file, clauses) == file \o Lines(SelectSeq(clauses, IsNonError))

\* return all_clauses  (line 123)
ReturnValue(all, merged) == all

NoTextRecord == ErrorRecord("No text extracted from document")

\* A line an earlier run left in the output file.
StaleLine == JsonLine(Clause(Decimal(9), <<83>>, "high", "NIL"))

VARIABLES
    pc,                \* "start", "pass1", "pass2", "done", "aborted" (an exception left process_document)
    chunks,            \* chunk_text(text, chunk_size); <<>> when no text was extracted
    has_text,          \* bool(text)
    idx,               \* position of the for loop over chunks
    in_flight,         \* a generate_content_async call is awaited
    attempt,           \* model calls made so far for the current chunk in this pass
    all_clauses,       \* all_clauses
    total_clauses,     \* total_clauses
    very_high_clauses, \* very_high_clauses
    other_clauses,     \* other_clauses
    artifact,          \* lines of output_file
    returned,          \* value returned by process_document (when pc = "done")
    candidates,        \* history: very_high_clauses before the sort and slice
    final_from,        \* history: first line of the final append (0: none yet)
    log                \* history: one entry per finished process_chunk call

vars == <<pc, chunks, has_text, idx, in_flight, attempt, all_clauses, total_clauses,
          very_high_clauses, other_clauses, artifact, returned, candidates,
          final_from, log>>

TypeOK ==
    /\ pc \in {"start", "pass1", "pass2", "done", "aborted"}
    /\ has_text \in BOOLEAN
    /\ in_flight \in BOOLEAN
    /\ idx \in 1..(Len(chunks) + 1)
    /\ attempt \in 0..MaxAttempts

InitWith(cs, text) ==
    /\ pc = "start"
    /\ chunks = cs
    /\ has_text = text
    /\ idx = 1
    /\ in_flight = FALSE
    /\ attempt = 0
    /\ all_clauses = <<>>
    /\ total_clauses = 0
    /\ very_high_clauses = <<>>
    /\ other_clauses = <<>>
    /\ artifact \in {<<>>, <<StaleLine>>}
    /\ returned = <<>>
    /\ candidates = <<>>
    /\ final_from = 0
    /\ log = <<>>

Init ==
    \/ InitWith(<<>>, FALSE)
    \/ \E n \in 1..MaxChunks : InitWith(ChunksOf(n), TRUE)

\* Start with a fault: the file is opened for appending, not truncated.
StartKeepsFile ==
    /\ pc = "start"
    /\ artifact' = IF has_text THEN artifact ELSE artifact \o <<JsonLine(NoTextRecord)>>
    /\ pc' = IF has_text THEN "pass1" ELSE "done"
    /\ returned' = <<>>
    /\ UNCHANGED <<chunks, has_text, idx, in_flight, attempt, all_clauses, total_clauses,
                   very_high_clauses, other_clauses, candidates, final_from, log>>

\* Lines 86-95: truncate the file, extract the text, split it.
Start ==
    /\ pc = "start"
    /\ artifact' = IF has_text THEN <<>> ELSE <<JsonLine(NoTextRecord)>>
    /\ pc' = IF has_text THEN "pass1" ELSE "done"
    /\ returned' = <<>>
    /\ UNCHANGED <<chunks, has_text, idx, in_flight, attempt, all_clauses, total_clauses,
                   very_high_clauses, other_clauses, candidates, final_from, log>>

\* Lines 27-50: the prompt is built and the model call is issued.
GenerateContent ==
    /\ pc \in {"pass1", "pass2"}
    /\ idx <= Len(chunks)
    /\ ~in_flight
    /\ attempt < MaxAttempts
    /\ in_flight' = TRUE
    /\ attempt' = attempt + 1
    /\ UNCHANGED <<pc, chunks, has_text, idx, all_clauses, total_clauses, very_high_clauses,
                   other_clauses, artifact, returned, candidates, final_from, log>>

\* TotalClausesArg with a fault: the default 0 is passed in both passes.
TotalClausesArgDefault(is_final_pass, total) == 0

\* The total_clauses argument of the call: the default 0 in pass 1 (line 99),
\* total_clauses in pass 2 (line 108).
TotalClausesArg(is_final_pass, total) == IF is_final_pass THEN total ELSE 0

LogEntry(o, r) ==
    [pass |-> IF pc = "pass2" THEN 2 ELSE 1, chunk |-> idx, is_final_pass |-> pc = "pass2",
     total_arg |-> TotalClausesArg(pc = "pass2", total_clauses),
     prompt |-> PromptVariant(pc = "pass2", TotalClausesArg(pc = "pass2", total_clauses)),
     outcome |-> o.kind, exc |-> o.exc, empty_list |-> (o.kind = "list" /\ o.items = <<>>),
     calls |-> attempt, ret_kind |-> r.kind, ret |-> r.items, writes |-> r.writes]

\* The caller can take the returned value: extend() needs a list (line 100);
\* the comprehension of line 109 calls .get on every item.
CallerAccepts(r, is_final_pass) ==
    /\ r.kind = "list"
    /\ is_final_pass => \A j \in 1..Len(r.items) : IsObj(r.items[j])

\* Lines 51-83 on the outcome o of the awaited call, the decorator's decision,
\* and the caller's loop body (lines 99-100 or 108-109).
ModelReturns(o) ==
    /\ pc \in {"pass1", "pass2"}
    /\ in_flight
    /\ LET fp == pc = "pass2"
           r  == ProcessChunkBody(chunks[idx], o, fp)
           again == RetryAgain(r, attempt)
           ok == ~again /\ ~r.raised /\ CallerAccepts(r, fp)
       IN  /\ in_flight' = FALSE
           /\ artifact' = artifact \o r.writes
           /\ pc' = IF again \/ ok THEN pc ELSE "aborted"
           /\ idx' = IF ok THEN idx + 1 ELSE idx
           /\ attempt' = IF ok THEN 0 ELSE attempt
           /\ log' = IF again THEN log ELSE Append(log, LogEntry(o, r))
           /\ all_clauses' = IF ok /\ ~fp THEN all_clauses \o r.items ELSE all_clauses
           /\ very_high_clauses' = IF ok /\ fp THEN very_high_clauses \o VeryHighOf(r.items)
                                   ELSE very_high_clauses
    /\ UNCHANGED <<chunks, has_text, total_clauses, other_clauses, returned, candidates,
                   final_from>>

\* Decide with a fault: the file is not cleared before pass 2.
DecideKeepsFile ==
    /\ pc = "pass1"
    /\ idx > Len(chunks)
    /\ ~in_flight
    /\ IF \E j \in 1..Len(all_clauses) : ~IsObj(all_clauses[j])
       THEN /\ pc' = "aborted"
            /\ UNCHANGED <<total_clauses, artifact, returned, idx, final_from>>
       ELSE LET total == CountNonError(all_clauses)
            IN  /\ total_clauses' = total
                /\ IF NeedsRefinement(total)
                   THEN /\ artifact' = artifact
                        /\ pc' = "pass2"
                        /\ idx' = 1
                        /\ UNCHANGED <<returned, final_from>>
                   ELSE /\ artifact' = WriteClauses(artifact, all_clauses)
                        /\ final_from' = Len(artifact) + 1
                        /\ returned' = ReturnValue(all_clauses, all_clauses)
                        /\ pc' = "done"
                        /\ UNCHANGED idx
    /\ UNCHANGED <<chunks, has_text, in_flight, attempt, all_clauses, very_high_clauses,
                   other_clauses, candidates, log>>

\* Decide with a fault: the count is taken before the pass-1 loop has ended.
DecideEarly ==
    /\ pc = "pass1"
    /\ ~in_flight
    /\ IF \E j \in 1..Len(all_clauses) : ~IsObj(all_clauses[j])
       THEN /\ pc' = "aborted"
            /\ UNCHANGED <<total_clauses, artifact, returned, idx, final_from>>
       ELSE LET total == CountNonError(all_clauses)
            IN  /\ total_clauses' = total
                /\ IF NeedsRefinement(total)
                   THEN /\ artifact' = <<>>
                        /\ pc' = "pass2"
                        /\ idx' = 1
                        /\ UNCHANGED <<returned, final_from>>
                   ELSE /\ artifact' = WriteClauses(artifact, all_clauses)
                        /\ final_from' = Len(artifact) + 1
                        /\ returned' = ReturnValue(all_clauses, all_clauses)
                        /\ pc' = "done"
                        /\ UNCHANGED idx
    /\ UNCHANGED <<chunks, has_text, in_flight, attempt, all_clauses, very_high_clauses,
                   other_clauses, candidates, log>>

\* Lines 102-105 and 118-123: count, then either clear the file for pass 2 or
\* append the pass-1 records and return.  "error" not in c raises TypeError on
\* an item that is a number.
Decide ==
    /\ pc = "pass1"
    /\ idx > Len(chunks)
    /\ ~in_flight
    /\ IF \E j \in 1..Len(all_clauses) : ~IsObj(all_clauses[j])
       THEN /\ pc' = "aborted"
            /\ UNCHANGED <<total_clauses, artifact, returned, idx, final_from>>
       ELSE LET total == CountNonError(all_clauses)
            IN  /\ total_clauses' = total
                /\ IF NeedsRefinement(total)
                   THEN /\ artifact' = <<>>
                        /\ pc' = "pass2"
                        /\ idx' = 1
                        /\ UNCHANGED <<returned, final_from>>
                   ELSE /\ artifact' = WriteClauses(artifact, all_clauses)
                        /\ final_from' = Len(artifact) + 1
                        /\ returned' = ReturnValue(all_clauses, all_clauses)
                        /\ pc' = "done"
                        /\ UNCHANGED idx
    /\ UNCHANGED <<chunks, has_text, in_flight, attempt, all_clauses, very_high_clauses,
                   other_clauses, candidates, log>>

\* Lines 111-117 and 123: sort, keep the first 50, merge, append, return.
\* x["clause_number"] raises KeyError on a candidate without that key.
Select ==
    /\ pc = "pass2"
    /\ idx > Len(chunks)
    /\ ~in_flight
    /\ IF \E j \in 1..Len(very_high_clauses) : "clause_number" \notin very_high_clauses[j].keys
       THEN /\ pc' = "aborted"
            /\ UNCHANGED <<very_high_clauses, other_clauses, artifact, returned, candidates,
                           final_from>>
       ELSE \E selected \in {SelectTop(very_high_clauses)} :
            \E others \in {OtherClauses(all_clauses, selected)} :
                /\ candidates' = very_high_clauses
                /\ very_high_clauses' = selected
                /\ other_clauses' = others
                /\ artifact' = WriteClauses(artifact, others \o selected)
                /\ final_from' = Len(artifact) + 1
                /\ returned' = ReturnValue(all_clauses, others \o selected)
                /\ pc' = "done"
    /\ UNCHANGED <<chunks, has_text, idx, in_flight, attempt, all_clauses, total_clauses, log>>

Next ==
    \/ Start
    \/ GenerateContent
    \/ \E o \in ModelOutcomes : ModelReturns(o)
    \/ Decide
    \/ Select

\* The 60-chunk scenario: on chunk k the model replies, in both passes, with
\* one very-high-risk clause numbered str(k).
ScenarioReply(k) == ListOf(<<Clause(Decimal(k), <<84>>, "very high", "NIL")>>)

ScenarioInit == InitWith(ChunksOf(ScenarioChunks), TRUE)

ScenarioNext ==
    \/ Start
    \/ GenerateContent
    \/ ModelReturns(ScenarioReply(idx))
    \/ Decide
    \/ Select

ScenarioSpec == ScenarioInit /\ [][ScenarioNext]_vars

\* Documents whose first chunk is long, and replies from the shorter menu.
RefineInit == \E n \in 1..MaxChunks : InitWith(LongChunksOf(n), TRUE)

RefineNext ==
    \/ Start
    \/ GenerateContent
    \/ \E o \in RefineOutcomes : ModelReturns(o)
    \/ Decide
    \/ Select

RefineSpec == RefineInit /\ [][RefineNext]_vars

Spec == Init /\ [][Next]_vars

\* Every awaited model call returns or fails, and the coroutine keeps running.
FairSpec == Spec /\ WF_vars(Next)

\* ------------------------------------------------------ reading the state
\* The values of the lines of a file (json.loads of each line).
Parsed(file) == [i \in 1..Len(file) |-> file[i].json]

\* The lines of the file that are not ErrorRecords, in file order.
ClauseLines(file) == SelectSeq(Parsed(file), IsNonError)

\* The lines of the file that are very-high-risk Clauses, in file order.
VeryHighLines(file) == SelectSeq(Parsed(file), IsVeryHigh)

\* Non-decreasing in the str order of clause_number.
AscendingByNumber(s) ==
    \A i, j \in 1..Len(s) : i < j => ~StrLess(s[j].clause_number, s[i].clause_number)

RECURSIVE ReturnedInPass(_, _)
\* What the process_chunk calls of pass p returned, in call order.
ReturnedInPass(l, p) ==
    IF l = <<>> THEN <<>>
    ELSE (IF Head(l).pass = p THEN Head(l).ret ELSE <<>>) \o ReturnedInPass(Tail(l), p)

RECURSIVE WrittenInPass(_, _)
\* The lines the process_chunk calls of pass p appended, in call order.
WrittenInPass(l, p) ==
    IF l = <<>> THEN <<>>
    ELSE (IF Head(l).pass = p THEN Head(l).writes ELSE <<>>) \o WrittenInPass(Tail(l), p)

RECURSIVE CallsIn(_)
\* Model calls of the finished process_chunk calls.
CallsIn(l) == IF l = <<>> THEN 0 ELSE Head(l).calls + CallsIn(Tail(l))

\* Model calls made so far in the run.
TotalCalls == CallsIn(log) + attempt

Failed(e) == e.outcome = "fail"

Refined == pc \in {"pass2", "done"} /\ NeedsRefinement(total_clauses)

SimpleDone == pc = "done" /\ has_text /\ ~NeedsRefinement(total_clauses)

RefinedDone == pc = "done" /\ has_text /\ NeedsRefinement(total_clauses)

\* ------------------------------------------------------------------ claims

\* C1: a process_chunk call whose model call failed with ResourceExhausted or
\* ServiceUnavailable ends only after 3 model calls were made for that chunk
\* in that pass (the model is called again after each such failure).
C1_TransientFailureIsRetried ==
    \A k \in 1..Len(log) :
        (Failed(log[k]) /\ log[k].exc \in Retryable) => log[k].calls = MaxAttempts

\* C2: when the model call fails with a class other than the two retried
\* ones, the model was called exactly once for that chunk in that pass, the
\* call returns an empty list, and all_clauses holds exactly what the pass-1
\* calls returned (the chunk adds nothing).
C2_OtherFailureOnceAndEmpty ==
    /\ \A k \in 1..Len(log) :
          (Failed(log[k]) /\ log[k].exc \notin Retryable) =>
              /\ log[k].calls = 1
              /\ log[k].ret_kind = "list"
              /\ log[k].ret = <<>>
    /\ pc # "aborted" => all_clauses = ReturnedInPass(log, 1)

\* C2 witness: a chunk failed with InvalidArgument in pass 1 and the next
\* chunk was processed after it.
C2_Witness ==
    \E k \in 1..Len(log) :
        /\ Failed(log[k]) /\ log[k].exc = "InvalidArgument"
        /\ k < Len(log)
        /\ log[k + 1].chunk = log[k].chunk + 1
        /\ log[k + 1].ret # <<>>

\* C3: on the simple path (pass-1 non-error count <= 50) no chunk is processed
\* with is_final_pass, and the returned sequence and the Clause lines of the
\* file both equal the pass-1 Clauses (the records without an "error" key) in
\* chunk order.
C3_SimplePathOutput ==
    SimpleDone =>
        /\ \A k \in 1..Len(log) : ~log[k].is_final_pass
        /\ returned = SelectSeq(all_clauses, IsNonError)
        /\ ClauseLines(artifact) = SelectSeq(all_clauses, IsNonError)

\* C4: on the refinement path every chunk was processed again with
\* is_final_pass, and the very-high-risk Clauses in the final file number at
\* most 50 and are in ascending str order of clause_number.
C4_RefinedFileVeryHigh ==
    RefinedDone =>
        /\ \A i \in 1..Len(chunks) :
              \E k \in 1..Len(log) : log[k].chunk = i /\ log[k].is_final_pass
        /\ Len(VeryHighLines(artifact)) <= TopN
        /\ AscendingByNumber(VeryHighLines(artifact))

\* C5 (as stated): in the 60-chunk scenario the selected very-high list has
\* exactly 50 entries and their clause_numbers are exactly "1" through "50".
C5_SelectedAreOneToFifty ==
    pc = "done" =>
        /\ Len(very_high_clauses) = TopN
        /\ {very_high_clauses[i].clause_number : i \in 1..Len(very_high_clauses)}
               = {Decimal(k) : k \in 1..TopN}

\* The first 50 of str(1)..str(60) in str order: "1", "10".."19", "2",
\* "20".."29", "3", "30".."39", "4", "40".."49", "5", "50".."54".
FirstFiftyAsStrings ==
    LET Decade(d) == <<Decimal(d)>> \o [i \in 1..10 |-> Decimal(10 * d + i - 1)]
    IN  Decade(1) \o Decade(2) \o Decade(3) \o Decade(4)
        \o <<Decimal(5)>> \o [i \in 1..5 |-> Decimal(49 + i)]

\* C5 (amended): in the 60-chunk scenario the selected very-high list has
\* exactly 50 entries, and their clause_numbers are, in order, the first 50
\* of "1".."60" in str order: "6".."9" and "55".."60" are left out, "51".."54"
\* are in.
C5_SelectedAreFirstFiftyStrings ==
    pc = "done" =>
        /\ Len(very_high_clauses) = TopN
        /\ [i \in 1..Len(very_high_clauses) |-> very_high_clauses[i].clause_number]
               = FirstFiftyAsStrings

\* C5 witness: the scenario ran both passes over at least 60 chunks, found at
\* least 60 candidates and selected.
C5_Witness ==
    /\ pc = "done"
    /\ Len(chunks) >= 60
    /\ total_clauses = Len(chunks)
    /\ Len(candidates) = Len(chunks)
    /\ Len(log) = 2 * Len(chunks)

\* C6 (as stated): when a run on a document with text is done, the file holds
\* no ErrorRecord line ("No clauses found in chunk", "Processing error: ...").
C6_NoErrorLineInFile ==
    (pc = "done" /\ has_text) =>
        \A i \in 1..Len(artifact) :
            /\ artifact[i].json # NoClausesRecord
            /\ \A e \in FailureClasses \cup {"TypeError"} :
                   artifact[i].json # ProcessingError(e)

\* C6 (amended): when a run on a document with text is done, no line added by
\* the final append of process_document (lines 114-122) has an "error" key,
\* on both paths; ahead of it the file still holds every line process_chunk
\* appended since the last truncation, ErrorRecords included: the "No clauses
\* found in chunk" lines of pass 1 on the simple path, the "No clauses found
\* in chunk" and "Processing error: ..." lines of pass 2 on the refinement path.
C6_FinalAppendHasNoErrorLine ==
    (pc = "done" /\ has_text) =>
        /\ final_from \in 1..(Len(artifact) + 1)
        /\ \A i \in final_from..Len(artifact) : ~HasError(artifact[i].json)
        /\ SubSeq(artifact, 1, final_from - 1)
               = WrittenInPass(log, IF NeedsRefinement(total_clauses) THEN 2 ELSE 1)

\* C6 witness: a finished run whose pass-1 records include one with an "error"
\* key, whose final append wrote lines, and whose file still holds an
\* ErrorRecord line written by process_chunk.
C6_Witness ==
    /\ pc = "done" /\ has_text
    /\ \E j \in 1..Len(all_clauses) : HasError(all_clauses[j])
    /\ final_from <= Len(artifact)
    /\ \E i \in 1..(final_from - 1) : artifact[i].json = NoClausesRecord

\* C7: on the refinement path the sequence process_document returns is the
\* merged sequence other_clauses + very_high_clauses.
C7_ReturnsMerged ==
    RefinedDone => returned = other_clauses \o very_high_clauses

\* C8: within a run, what process_chunk returns for a chunk whose model call
\* failed differs from what it returns for a chunk whose reply decoded to an
\* empty list.
C8_FailureDiffersFromEmpty ==
    \A j, k \in 1..Len(log) :
        (Failed(log[j]) /\ log[k].empty_list) =>
            <<log[j].ret_kind, log[j].ret>> # <<log[k].ret_kind, log[k].ret>>

\* C9: no chunk outcome makes an exception leave process_document.
C9_NoOutcomeAborts == pc # "aborted"

\* C10: every run eventually reaches DONE (process_document returns), given
\* that every awaited model call returns or fails (FairSpec).
C10_EventuallyDone == <>(pc = "done")

\* C10, second half: at most 3 model calls per chunk per pass, and two passes.
C10_CallsBounded == TotalCalls <= 2 * MaxAttempts * Len(chunks)

\* C11: when no text is extracted the model is never invoked, and when the
\* run is done it has returned an empty sequence and the file holds exactly one
\* line, the ErrorRecord "No text extracted from document", whatever the file
\* held before the run.
C11_NoTextShortCircuits ==
    ~has_text =>
        /\ ~in_flight /\ attempt = 0 /\ log = <<>>
        /\ pc \in {"start", "done"}
        /\ pc = "done" => (returned = <<>> /\ artifact = <<JsonLine(NoTextRecord)>>)

\* C11 witness: a run on a document without text is done.
C11_Witness == pc = "done" /\ ~has_text /\ Len(artifact) = 1

\* The calls of process_chunk whose reply failed JSON decoding.
IsUndecodable(e) == e.outcome = "undecodable"

\* t is the first 1000 characters of chunk (the whole chunk when shorter).
IsFirstThousandOf(t, chunk) ==
    /\ Len(t) = (IF Len(chunk) < FallbackLen THEN Len(chunk) ELSE FallbackLen)
    /\ \A i \in 1..Len(t) : t[i] = chunk[i]

\* C12: in either pass, a call whose reply fails JSON decoding returns exactly
\* one Clause, with clause_number "unknown", clause_risk "medium", negotiation
\* "NIL" and clause_text the first 1000 characters of the chunk, and appends
\* no ErrorRecord for that chunk.
C12_FallbackClause ==
    \A k \in 1..Len(log) :
        IsUndecodable(log[k]) =>
            /\ log[k].ret_kind = "list"
            /\ Len(log[k].ret) = 1
            /\ log[k].ret[1].keys = ClauseKeys
            /\ log[k].ret[1].clause_number = Unknown
            /\ log[k].ret[1].clause_risk = "medium"
            /\ log[k].ret[1].negotiation = "NIL"
            /\ IsFirstThousandOf(log[k].ret[1].clause_text, chunks[log[k].chunk])
            /\ \A i \in 1..Len(log[k].writes) : ~HasError(log[k].writes[i].json)

\* C12 witness: the reply for the long chunk failed decoding in pass 2 (the
\* text was cut to 1000 characters), the reply for a short chunk failed
\* decoding in pass 1.
C12_Witness ==
    /\ \E k \in 1..Len(log) :
          /\ IsUndecodable(log[k]) /\ log[k].pass = 2
          /\ Len(chunks[log[k].chunk]) > FallbackLen
          /\ Len(log[k].ret[1].clause_text) = FallbackLen
    /\ \E k \in 1..Len(log) :
          /\ IsUndecodable(log[k]) /\ log[k].pass = 1
          /\ Len(chunks[log[k].chunk]) < FallbackLen
          /\ log[k].ret[1].clause_text = chunks[log[k].chunk]

\* The calls of process_chunk whose reply decoded to an empty list.
IsEmptyList(e) == e.empty_list

\* C13: in either pass, a call whose reply decodes to an empty list returns
\* no Clause and appends exactly one line, the ErrorRecord "No clauses found
\* in chunk"; right after such a call the file ends with that line.
C13_EmptyListRecord ==
    /\ \A k \in 1..Len(log) :
          IsEmptyList(log[k]) =>
              /\ log[k].ret_kind = "list"
              /\ log[k].ret = <<>>
              /\ log[k].writes = <<JsonLine(NoClausesRecord)>>
    /\ (log # <<>> /\ IsEmptyList(log[Len(log)])
           /\ ((pc = "pass1" /\ log[Len(log)].pass = 1) \/ (pc = "pass2" /\ log[Len(log)].pass = 2))) =>
          (artifact # <<>> /\ artifact[Len(artifact)] = JsonLine(NoClausesRecord))

\* C13 witness: a reply decoded to an empty list in pass 1 and another in
\* pass 2, and the file holds the pass-2 record.
C13_Witness ==
    /\ \E k \in 1..Len(log) : IsEmptyList(log[k]) /\ log[k].pass = 1
    /\ \E k \in 1..Len(log) : IsEmptyList(log[k]) /\ log[k].pass = 2
    /\ \E i \in 1..Len(artifact) : artifact[i] = JsonLine(NoClausesRecord)

\* a is a prefix of b.
IsPrefix(a, b) == Len(a) <= Len(b) /\ SubSeq(b, 1, Len(a)) = a

\* C14: when the first pass-2 chunk is submitted the file is empty; during
\* pass 2 and the final append every step leaves the earlier content as a
\* prefix of the file; the only steps that do not are the truncation at the
\* start of the run and the one that starts the refinement pass.
C14_TruncateThenAppendOnly ==
    [][ /\ (pc = "pass2" /\ idx = 1 /\ attempt = 0 /\ in_flight') => artifact = <<>>
        /\ pc = "pass2" => IsPrefix(artifact, artifact')
        /\ ~IsPrefix(artifact, artifact') =>
               (pc = "start" \/ (pc = "pass1" /\ pc' = "pass2" /\ artifact' = <<>>))
      ]_vars

\* C14 witness: a finished refinement run in which pass 1 had written to the
\* file, pass 2 appended lines and the final append added more.
C14_Witness ==
    /\ RefinedDone
    /\ WrittenInPass(log, 1) # <<>>
    /\ final_from > 1
    /\ Len(artifact) >= final_from
    /\ SubSeq(artifact, 1, final_from - 1) = WrittenInPass(log, 2)

\* The four risk levels.
RiskLevels == {"low", "medium", "high", "very high"}

\* c was returned by a process_chunk call of the final pass.
ProducedInFinalPass(c) == Member(c, ReturnedInPass(log, 2))

\* C15: every Clause of the final output (returned sequence or file) has one
\* of the four risk levels, and its negotiation is "NIL" unless its risk is
\* very high and it was produced during a final pass.
C15_OutputClausesWellFormed ==
    (pc = "done" /\ has_text) =>
        LET WellFormed(c) ==
                /\ c.clause_risk \in RiskLevels
                /\ c.negotiation # "NIL" => (IsVeryHigh(c) /\ ProducedInFinalPass(c))
            out == SelectSeq(returned, IsNonError) \o ClauseLines(artifact)
        IN  \A i \in 1..Len(out) : WellFormed(out[i])

\* Number of occurrences of c in s.
Count(c, s) == Cardinality({j \in 1..Len(s) : s[j] = c})

Range(s) == {s[j] : j \in 1..Len(s)}

\* C16: on the refinement path the selected list is a sub-collection of the
\* very-high-risk Clauses returned by the pass-2 calls, has length
\* min(50, number of them), is in non-decreasing str order of clause_number,
\* and every such Clause left out has a clause_number that is not str-smaller
\* than any selected one.
C16_SelectionIsSortedPrefix ==
    RefinedDone =>
        /\ candidates = VeryHighOf(ReturnedInPass(log, 2))
        /\ Len(very_high_clauses) = (IF Len(candidates) < TopN THEN Len(candidates) ELSE TopN)
        /\ \A c \in Range(very_high_clauses) :
               Count(c, very_high_clauses) <= Count(c, candidates)
        /\ \A i \in 1..(Len(very_high_clauses) - 1) :
               ~StrLess(very_high_clauses[i + 1].clause_number,
                        very_high_clauses[i].clause_number)
        /\ \A c \in Range(candidates) :
               Count(c, candidates) > Count(c, very_high_clauses) =>
                   \A i \in 1..Len(very_high_clauses) :
                       ~StrLess(c.clause_number, very_high_clauses[i].clause_number)

\* C16 witness: a finished refinement run with more than 50 candidates, not
\* all with the same clause_number, of which 50 were selected.
C16_Witness ==
    /\ RefinedDone
    /\ Len(candidates) > TopN
    /\ Len(very_high_clauses) = TopN
    /\ very_high_clauses # SubSeq(candidates, 1, TopN)

\* C17: a call uses the negotiation variant of the prompt iff its
\* is_final_pass is true and its total_clauses exceeds 50; every pass-1 call
\* uses the all-"NIL" variant, and every pass-2 call uses the negotiation
\* variant with total_clauses equal to the number of non-error items
\* accumulated in pass 1.
C17_PromptVariantByPass ==
    \A i \in 1..Len(log) :
        /\ (log[i].prompt = "negotiation") <=>
               (log[i].is_final_pass /\ log[i].total_arg > Threshold)
        /\ log[i].pass = 1 => (~log[i].is_final_pass /\ log[i].prompt = "nil")
        /\ log[i].pass = 2 =>
               /\ log[i].is_final_pass
               /\ log[i].prompt = "negotiation"
               /\ log[i].total_arg = CountNonError(all_clauses)

\* C17 witness: calls of both passes have been made.
C17_Witness ==
    /\ \E i \in 1..Len(log) : log[i].pass = 1 /\ log[i].prompt = "nil"
    /\ \E i \in 1..Len(log) : log[i].pass = 2 /\ log[i].prompt = "negotiation"

\* The finished process_chunk calls of pass p, in the order they finished.
PassEntries(l, p) == SelectSeq(l, LAMBDA e : e.pass = p)

\* C18: processing is sequential.  The finished calls of a pass are for chunks
\* 1, 2, ... in that order and all pass-1 calls precede all pass-2 calls; a
\* call in flight is for the chunk right after the finished ones of its pass;
\* pass 2 (and the return of a document with text) is reached only after
\* every chunk has finished in pass 1 and the count has been taken.
C18_Sequential ==
    /\ \A p \in {1, 2} : \A k \in 1..Len(PassEntries(log, p)) :
           PassEntries(log, p)[k].chunk = k
    /\ log = PassEntries(log, 1) \o PassEntries(log, 2)
    /\ in_flight =>
           /\ pc \in {"pass1", "pass2"}
           /\ idx = Len(PassEntries(log, IF pc = "pass2" THEN 2 ELSE 1)) + 1
           /\ idx <= Len(chunks)
    /\ (has_text /\ (pc \in {"pass2", "done"} \/ PassEntries(log, 2) # <<>>)) =>
           /\ Len(PassEntries(log, 1)) = Len(chunks)
           /\ total_clauses = CountNonError(all_clauses)

\* C18 witness: the second chunk's pass-2 call is in flight after both chunks
\* finished in pass 1 and the first finished in pass 2.
C18_Witness ==
    /\ pc = "pass2"
    /\ in_flight
    /\ idx = 2
    /\ Len(PassEntries(log, 1)) = 2
    /\ Len(PassEntries(log, 2)) = 1

\* C19: what one process_chunk call appends to the file.  With is_final_pass
\* false it appends no Clause line and no "Processing error" record (the only
\* line it can append is "No clauses found in chunk"), and nothing at all when
\* the model call failed.  With is_final_pass true it appends one line per
\* returned item in returned order (the fallback Clause included), exactly one
\* "Processing error" record when the model call failed, and exactly one
\* error record when it returns nothing.
C19_WritesByPass ==
    [][ log' # log =>
          LET e == log'[Len(log')]
          IN  /\ artifact' = artifact \o e.writes
              /\ ~e.is_final_pass =>
                     /\ e.writes \in {<<>>, <<JsonLine(NoClausesRecord)>>}
                     /\ e.outcome \in {"fail", "undecodable"} => e.writes = <<>>
              /\ e.is_final_pass =>
                     /\ e.outcome = "fail" =>
                            (e.writes = <<JsonLine(ProcessingError(e.exc))>> /\ e.ret = <<>>)
                     /\ e.outcome = "undecodable" =>
                            (Len(e.ret) = 1 /\ e.ret[1].clause_number = Unknown)
                     /\ e.ret # <<>> => e.writes = Lines(e.ret)
                     /\ e.ret = <<>> =>
                            (Len(e.writes) = 1 /\ HasError(e.writes[1].json))
      ]_vars

\* C19 witness: a pass-1 call returned Clauses and wrote nothing, a pass-2
\* call wrote the Clauses it returned, and a pass-2 call failed and wrote its
\* one "Processing error" record.
C19_Witness ==
    /\ \E i \in 1..Len(log) :
           ~log[i].is_final_pass /\ log[i].ret # <<>> /\ log[i].writes = <<>>
    /\ \E i \in 1..Len(log) :
           log[i].is_final_pass /\ Len(log[i].ret) > 1 /\ log[i].writes = Lines(log[i].ret)
    /\ \E i \in 1..Len(log) :
           /\ log[i].is_final_pass
           /\ log[i].outcome = "fail"
           /\ log[i].writes = <<JsonLine(ProcessingError(log[i].exc))>>
    /\ artifact = WrittenInPass(log, 2)

\* The items returned in pass 1 that are not very high risk or that equal a
\* selected candidate, in pass-1 order.
KeptFromPass1 ==
    LET Keep(c) == ~IsVeryHigh(c) \/ Member(c, very_high_clauses)
    IN  SelectSeq(ReturnedInPass(log, 1), Keep)

\* C20 as stated: after a refinement run the file is the lines appended during
\* pass 2, then the pass-1 Clauses that are not very high or equal a selected
\* candidate, then the selected very-high candidates; so every selected
\* candidate occurs at least twice in the file.
C20_FinalArtifact ==
    RefinedDone =>
        /\ artifact = WrittenInPass(log, 2)
                        \o Lines(SelectSeq(KeptFromPass1, IsNonError))
                        \o Lines(very_high_clauses)
        /\ \A i \in 1..Len(very_high_clauses) :
               Count(JsonLine(very_high_clauses[i]), artifact) >= 2

\* C20 amended: after a refinement run the file is the lines appended during
\* pass 2, then the pass-1 items without an "error" key that are not very high
\* or equal a selected candidate, then the selected candidates without an
\* "error" key; every selected candidate without an "error" key occurs at
\* least twice in the file, and the final append adds no line for a selected
\* candidate that has one.
C20_FinalArtifactFiltered ==
    RefinedDone =>
        /\ artifact = WrittenInPass(log, 2)
                        \o Lines(SelectSeq(KeptFromPass1, IsNonError))
                        \o Lines(SelectSeq(very_high_clauses, IsNonError))
        /\ final_from = Len(WrittenInPass(log, 2)) + 1
        /\ \A i \in 1..Len(very_high_clauses) :
               IF IsNonError(very_high_clauses[i])
               THEN Count(JsonLine(very_high_clauses[i]), artifact) >= 2
               ELSE \A k \in final_from..Len(artifact) :
                        artifact[k] # JsonLine(very_high_clauses[i])

\* C20 witness: a finished refinement run in which a selected candidate has an
\* "error" key, another has none, and a very-high Clause of pass 1 equals a
\* selected candidate.
C20_Witness ==
    /\ RefinedDone
    /\ \E i \in 1..Len(very_high_clauses) : HasError(very_high_clauses[i])
    /\ \E i \in 1..Len(very_high_clauses) : IsNonError(very_high_clauses[i])
    /\ \E j \in 1..Len(all_clauses) :
           IsVeryHigh(all_clauses[j]) /\ Member(all_clauses[j], very_high_clauses)

====
